---- MODULE Spec2Model ----
(***************************************************************************)
(* A model of modules/attention.py: the window / spatial reshaping         *)
(* utilities, MultiHeadSelfAttention, AttentionBlock, TransformerSR and    *)
(* Classifier.                                                             *)
(*                                                                         *)
(* A tensor is a record [shape, data]: shape is the sequence of dimension  *)
(* sizes and data the elements in logical row-major order (1-indexed).     *)
(* reshape keeps the row-major order and permute moves the elements, as    *)
(* the tensor library does.                                                *)
(***************************************************************************)
EXTENDS Integers, Sequences, FiniteSets, Bags, TLC

VARIABLES
    cfg,        \* constructor parameters and the input's shape
    model,      \* the module object __init__ built from them
    pc,         \* position in the forward computation being run
    x,          \* the local x of the forward computation
    x_in,       \* the argument the computation was called with
    saved,      \* a tensor forward still needs: x before spatial_flatten, or
                \* the (3, B, N, num_heads, L, head_dim) tensor of q, k and v
    i,          \* the loop index: the block pair of TransformerSR.forward, the
                \* position in self.blocks of Classifier.forward
    residual,   \* TransformerSR.forward: the dict residual
    trace       \* history: what each iteration of the loop did

vars == <<cfg, model, pc, x, x_in, saved, i, residual, trace>>

----------------------------------------------------------------------------
(* Bounds of the model: batch size, channels and map sizes of the         *)
(* reshaping and block runs; groups, sequence length, channels and heads   *)
(* of the attention runs; residual policies, block counts and factors of   *)
(* TransformerSR; stages, blocks per stage, window and map sizes of        *)
(* Classifier.                                                             *)
MaxB == 2
MaxC == 2
MaxHW == 4
MaxWin == 2
MaxSeed == 1
MaxN == 2
MaxL == 2
MaxDim == 4
MaxHeads == 2
MaxBlockDim == 2
MaxGroups == 2
MaxPeriod == 6
MaxBlocks == 6
MaxFactor == 2
MaxStages == 2
MaxGroupSize == 1
MaxClsWin == 4
MaxClsHW == 8

----------------------------------------------------------------------------
(* Tensor primitives of the library, on [shape, data]. *)

RECURSIVE Prod(_)
Prod(s) == IF s = <<>> THEN 1 ELSE Head(s) * Prod(Tail(s))

Numel(shape) == Prod(shape)

Rank(t) == Len(t.shape)

\* number of elements one step along dimension k (1-based) spans
Stride(shape, k) == Prod(SubSeq(shape, k + 1, Len(shape)))

\* 0-based multi-index of the 0-based flat position f
Unravel(f, shape) == [k \in 1..Len(shape) |-> (f \div Stride(shape, k)) % shape[k]]

RECURSIVE RavelFrom(_, _, _)
RavelFrom(idx, shape, k) ==
    IF k > Len(shape) THEN 0
    ELSE idx[k] * Stride(shape, k) + RavelFrom(idx, shape, k + 1)

\* 0-based flat position of the 0-based multi-index idx
Ravel(idx, shape) == RavelFrom(idx, shape, 1)

\* t[idx] for a 0-based multi-index
At(t, idx) == t.data[Ravel(idx, t.shape) + 1]

\* Tensor.reshape: same elements in the same row-major order
Reshape(t, shape) == [shape |-> shape, data |-> t.data]

\* whether Tensor.reshape accepts the shape (otherwise it raises)
CanReshape(t, shape) == Numel(shape) = Numel(t.shape)

\* Tensor.permute(dims): dims are 0-based, result dimension k is t's dims[k]
Permute(t, dims) ==
    LET ns == [k \in 1..Len(dims) |-> t.shape[dims[k] + 1]]
        src(m) == [d \in 1..Len(dims) |->
                      m[CHOOSE k \in 1..Len(dims) : dims[k] + 1 = d]]
    IN [shape |-> ns,
        data |-> [g \in 1..Len(t.data) |-> At(t, src(Unravel(g - 1, ns)))]]

\* a tensor of the given shape whose elements are not tracked (data is empty);
\* every operation below maps it to the result's shape alone
ShapeOnly(shape) == [shape |-> shape, data |-> <<>>]

\* the tensor of the given shape and elements, or the shape alone when src's
\* elements are not tracked
Build(src, shape, data) ==
    [shape |-> shape, data |-> IF src.data = <<>> THEN <<>> ELSE data]

\* the flat positions (1-based) of a tensor of the given shape
Positions(shape) == 1..Numel(shape)

\* x[k] along the first dimension (k is 0-based)
Select0(t, k) ==
    LET n == Numel(Tail(t.shape))
    IN [shape |-> Tail(t.shape),
        data |-> IF t.data = <<>> THEN <<>> ELSE SubSeq(t.data, k * n + 1, (k + 1) * n)]

\* Tensor.transpose(-2, -1)
TransposeLast(t) ==
    LET r == Rank(t)
    IN Permute(t, [k \in 1..r |-> IF k = r - 1 THEN r - 1
                                  ELSE IF k = r THEN r - 2 ELSE k - 1])

\* Tensor.flatten(-2)
FlattenLast2(t) ==
    LET r == Rank(t)
    IN Reshape(t, SubSeq(t.shape, 1, r - 2) \o <<t.shape[r - 1] * t.shape[r]>>)

\* Tensor.unflatten(-1, (H, W))
UnflattenLast(t, H, W) ==
    Reshape(t, SubSeq(t.shape, 1, Rank(t) - 1) \o <<H, W>>)

\* Tensor.unsqueeze(1)
Unsqueeze1(t) == Reshape(t, <<t.shape[1], 1>> \o SubSeq(t.shape, 2, Rank(t)))

\* Tensor.squeeze(1): drops dimension 1 when its size is 1
Squeeze1(t) ==
    IF t.shape[2] = 1
    THEN Reshape(t, <<t.shape[1]>> \o SubSeq(t.shape, 3, Rank(t)))
    ELSE t

----------------------------------------------------------------------------
(* The spatial reshaping utilities. *)

window_partition_rowswap(t, window_size) ==
    LET B == t.shape[1]
        C == t.shape[2]
        H == t.shape[3]
        W == t.shape[4]
        num_windows == (H * W) \div (window_size * window_size)
    IN Permute(
         Reshape(
           Reshape(t, <<B, C, H \div window_size, window_size,
                        W \div window_size, window_size>>),
           <<B, C, num_windows, window_size, window_size>>),
         <<0, 2, 1, 3, 4>>)

window_partition(t, window_size) ==
    LET B == t.shape[1]
        C == t.shape[2]
        H == t.shape[3]
        W == t.shape[4]
        num_windows == (H * W) \div (window_size * window_size)
    IN Permute(
         Reshape(
           Permute(
             Reshape(t, <<B, C, H \div window_size, window_size,
                          W \div window_size, window_size>>),
             <<0, 1, 2, 4, 3, 5>>),
           <<B, C, num_windows, window_size, window_size>>),
         <<0, 2, 1, 3, 4>>)

\* line 9 divides by window_size ** 2, and reshape at line 11 raises unless
\* the six sizes multiply to B*C*H*W
window_partition_ok(t, window_size) ==
    /\ window_size # 0
    /\ CanReshape(t, <<t.shape[1], t.shape[2], t.shape[3] \div window_size,
                    window_size, t.shape[4] \div window_size, window_size>>)

window_unpartition_swapped(t, H, W) ==
    LET B == t.shape[1]
        C == t.shape[3]
        window_size == t.shape[4]
    IN Reshape(
         Permute(
           Reshape(
             Permute(t, <<0, 2, 1, 3, 4>>),
             <<B, C, W \div window_size, H \div window_size,
               window_size, window_size>>),
           <<0, 1, 2, 4, 3, 5>>),
         <<B, C, H, W>>)

window_unpartition(t, H, W) ==
    LET B == t.shape[1]
        C == t.shape[3]
        window_size == t.shape[4]
    IN Reshape(
         Permute(
           Reshape(
             Permute(t, <<0, 2, 1, 3, 4>>),
             <<B, C, H \div window_size, W \div window_size,
               window_size, window_size>>),
           <<0, 1, 2, 4, 3, 5>>),
         <<B, C, H, W>>)

spatial_flatten_untransposed(t) ==
    LET f == FlattenLast2(t)
        r == Rank(f)
    IN Reshape(f, SubSeq(f.shape, 1, r - 2) \o <<f.shape[r], f.shape[r - 1]>>)

spatial_flatten(t) == TransposeLast(FlattenLast2(t))

spatial_unflatten(t, H, W) == UnflattenLast(TransposeLast(t), H, W)

----------------------------------------------------------------------------
(* Tensor elements.  An element records what the arithmetic determines:    *)
(*   kind "val":     an exact rational val = <<numerator, denominator>>;   *)
(*   kind "softmax": exp(val) / (the sum of exp over the logits `over`);   *)
(*   kind "opaque":  the result of layer norm, GELU, or arithmetic on      *)
(*                   such results (not a rational);                        *)
(*   dep: the input elements the element is computed from;                 *)
(*   id:  the input elements that reach it by additions alone.             *)

Abs(n) == IF n < 0 THEN -n ELSE n

RECURSIVE GCD(_, _)
GCD(a, b) == IF b = 0 THEN a ELSE GCD(b, a % b)

\* the rational n/d (d > 0) in lowest terms
Rat(n, d) == LET g == GCD(Abs(n), d) IN <<n \div g, d \div g>>

RatAdd(a, b) == Rat(a[1] * b[2] + b[1] * a[2], a[2] * b[2])

RatMul(a, b) == Rat(a[1] * b[1], a[2] * b[2])

RECURSIVE RatSum(_)
RatSum(s) == IF s = <<>> THEN <<0, 1>> ELSE RatAdd(Head(s), RatSum(Tail(s)))

Leaf(label, n) ==
    [kind |-> "val", val |-> <<n, 1>>, over |-> <<>>, dep |-> {label}, id |-> {label}]

Known(dep, v) ==
    [kind |-> "val", val |-> v, over |-> <<>>, dep |-> dep, id |-> {}]

Opaque(dep) ==
    [kind |-> "opaque", val |-> <<0, 1>>, over |-> <<>>, dep |-> dep, id |-> {}]

AllVal(row) == \A k \in 1..Len(row) : row[k].kind = "val"

Deps(row) == UNION {row[k].dep : k \in 1..Len(row)}

\* e / n for a positive integer n
EDiv(e, n) ==
    IF e.kind = "val" THEN Known(e.dep, RatMul(e.val, <<1, n>>)) ELSE Opaque(e.dep)

\* a + b
EAdd(a, b) ==
    [kind |-> IF a.kind = "val" /\ b.kind = "val" THEN "val" ELSE "opaque",
     val |-> IF a.kind = "val" /\ b.kind = "val" THEN RatAdd(a.val, b.val) ELSE <<0, 1>>,
     over |-> <<>>,
     dep |-> a.dep \cup b.dep,
     id |-> a.id \cup b.id]

\* the sum over k of r[k] * c[k]
Dot(r, c) ==
    IF AllVal(r) /\ AllVal(c)
    THEN Known(Deps(r) \cup Deps(c),
               RatSum([k \in 1..Len(r) |-> RatMul(r[k].val, c[k].val)]))
    ELSE Opaque(Deps(r) \cup Deps(c))

\* t / n
DivScalar(t, n) == Build(t, t.shape, [g \in Positions(t.shape) |-> EDiv(t.data[g], n)])

\* a + b for tensors of one shape
AddT(a, b) ==
    Build(a, a.shape, [g \in Positions(a.shape) |-> EAdd(a.data[g], b.data[g])])

\* torch.matmul(a, b): a is (..., n, m), b is (..., m, p), equal batch dims
MatMul(a, b) ==
    LET r == Rank(a)
        m == a.shape[r]
        shape == SubSeq(a.shape, 1, r - 1) \o <<b.shape[r]>>
        e(g) == LET idx == Unravel(g - 1, shape)
                    bi == SubSeq(idx, 1, r - 2)
                IN Dot([k \in 1..m |-> At(a, bi \o <<idx[r - 1], k - 1>>)],
                       [k \in 1..m |-> At(b, bi \o <<k - 1, idx[r]>>)])
    IN Build(a, shape, [g \in Positions(shape) |-> e(g)])

\* the elements of t that share all but the last index with position g
LastAxisRow(t, g) ==
    LET m == t.shape[Rank(t)]
        base == ((g - 1) \div m) * m
    IN [k \in 1..m |-> t.data[base + k]]

\* F.softmax(t, -1)
Softmax(t) ==
    LET e(g) == LET row == LastAxisRow(t, g)
                IN IF AllVal(row)
                   THEN [kind |-> "softmax", val |-> t.data[g].val,
                         over |-> [k \in 1..Len(row) |-> row[k].val],
                         dep |-> Deps(row), id |-> {}]
                   ELSE Opaque(Deps(row))
    IN Build(t, t.shape, [g \in Positions(t.shape) |-> e(g)])

\* nn.Linear(in_features, out_features): the parameters are integers fixed by seed
nn_Linear(in_features, out_features, seed) ==
    [in_features |-> in_features, out_features |-> out_features, seed |-> seed]

\* lin.weight[j][c] and lin.bias[j] (1-based)
LinearWeight(lin, j, c) == ((j + 2 * c + lin.seed) % 3) - 1

LinearBias(lin, j) == (j + lin.seed) % 2

\* Linear.forward: over the last dimension, y[j] = sum_c x[c] * weight[j][c] + bias[j]
Linear(lin, t) ==
    LET C == t.shape[Rank(t)]
        shape == SubSeq(t.shape, 1, Rank(t) - 1) \o <<lin.out_features>>
        e(g) == LET p == (g - 1) \div lin.out_features
                    j == ((g - 1) % lin.out_features) + 1
                    row == [c \in 1..C |-> t.data[p * C + c]]
                IN IF AllVal(row)
                   THEN Known(Deps(row),
                              RatAdd(RatSum([c \in 1..C |->
                                         RatMul(row[c].val, <<LinearWeight(lin, j, c), 1>>)]),
                                     <<LinearBias(lin, j), 1>>))
                   ELSE Opaque(Deps(row))
    IN Build(t, shape, [g \in Positions(shape) |-> e(g)])

\* nn.LayerNorm(dim): normalises over the last dimension
LayerNorm(t) ==
    Build(t, t.shape, [g \in Positions(t.shape) |-> Opaque(Deps(LastAxisRow(t, g)))])

\* nn.GELU: elementwise
GELU(t) == Build(t, t.shape, [g \in Positions(t.shape) |-> Opaque(t.data[g].dep)])

----------------------------------------------------------------------------
(* MultiHeadSelfAttention. *)

\* __init__
MultiHeadSelfAttention(dim, transposed, num_heads, seed) ==
    [dim |-> dim,
     transposed |-> transposed,
     num_heads |-> num_heads,
     qkv |-> nn_Linear(dim, dim * 3, seed),
     out |-> nn_Linear(dim, dim, seed + 1)]

\* line 62
mhsa_project(self, t) == Linear(self.qkv, t)

\* lines 63-66: (3, B, N, num_heads, L, head_dim); C is self.dim, the qkv
\* layer accepting no other channel count
mhsa_split_shape(self, shape) ==
    <<shape[1], shape[2], shape[3], 3, self.num_heads, self.dim \div self.num_heads>>

mhsa_split(self, t) ==
    Permute(Reshape(t, mhsa_split_shape(self, t.shape)), <<3, 0, 1, 4, 2, 5>>)

\* the inner torch.matmul of lines 69-89 with one operand left unscaled
mhsa_scores_once(self, qkv) ==
    LET L == qkv.shape[5]
        head_dim == qkv.shape[6]
    IN IF self.transposed
       THEN MatMul(DivScalar(TransposeLast(Select0(qkv, 0)), L), Select0(qkv, 1))
       ELSE MatMul(DivScalar(Select0(qkv, 0), head_dim),
                   TransposeLast(Select0(qkv, 1)))

\* the inner torch.matmul of lines 69-89
mhsa_scores(self, qkv) ==
    LET L == qkv.shape[5]
        head_dim == qkv.shape[6]
    IN IF self.transposed
       THEN MatMul(DivScalar(TransposeLast(Select0(qkv, 0)), L),
                   DivScalar(Select0(qkv, 1), L))
       ELSE MatMul(DivScalar(Select0(qkv, 0), head_dim),
                   DivScalar(TransposeLast(Select0(qkv, 1)), head_dim))

\* F.softmax(..., -1)
mhsa_weights(self, scores) == Softmax(scores)

\* the outer torch.matmul and permute: (B, N, L, num_heads, head_dim)
mhsa_context(self, weights, qkv) ==
    IF self.transposed
    THEN Permute(MatMul(weights, TransposeLast(Select0(qkv, 2))), <<0, 1, 4, 2, 3>>)
    ELSE Permute(MatMul(weights, Select0(qkv, 2)), <<0, 1, 3, 2, 4>>)

\* lines 91-93
mhsa_out(self, ctx) == Linear(self.out, FlattenLast2(ctx))

\* whether the reshape of line 64 accepts its sizes
mhsa_ok(self, t) ==
    /\ t.shape[4] = self.dim
    /\ CanReshape(mhsa_project(self, ShapeOnly(t.shape)), mhsa_split_shape(self, t.shape))

\* forward
mhsa_forward(self, t) ==
    LET qkv == mhsa_split(self, mhsa_project(self, t))
    IN mhsa_out(self,
           mhsa_context(self, mhsa_weights(self, mhsa_scores(self, qkv)), qkv))

----------------------------------------------------------------------------
(* AttentionBlock. *)

\* __init__
AttentionBlock(dim, transposed, window_size, num_heads, seed) ==
    [dim |-> dim,
     window_size |-> window_size,
     transposed |-> transposed,
     window_attention |-> MultiHeadSelfAttention(dim, transposed, num_heads, seed),
     fc1 |-> nn_Linear(dim, dim * 4, seed + 2),
     fc2 |-> nn_Linear(dim * 4, dim, seed + 3)]

\* lines 128-132
block_enter(self, t) ==
    spatial_flatten(IF self.transposed THEN Unsqueeze1(t)
                    ELSE window_partition(t, self.window_size))

\* line 134 with the windows merged into one sequence before attention
block_attend_merged(self, t) ==
    LET merged == <<t.shape[1], 1, t.shape[2] * t.shape[3], t.shape[4]>>
    IN AddT(t, Reshape(mhsa_forward(self.window_attention,
                                    LayerNorm(Reshape(t, merged))),
                       t.shape))

\* line 134
block_attend(self, t) == AddT(t, mhsa_forward(self.window_attention, LayerNorm(t)))

\* line 135
block_mlp(self, t) ==
    AddT(t, Linear(self.fc2, GELU(Linear(self.fc1, LayerNorm(t)))))

\* lines 137-142
block_leave(self, t, H, W) ==
    IF self.transposed
    THEN Squeeze1(spatial_unflatten(t, H, W))
    ELSE window_unpartition(
             spatial_unflatten(t, self.window_size, self.window_size), H, W)

\* whether forward runs without a shape error: the reshape of window_partition,
\* LayerNorm(dim) and Linear(dim, ...) on the channel dimension, the reshape of
\* MultiHeadSelfAttention.forward
block_ok(self, t) ==
    /\ IF self.transposed THEN TRUE ELSE window_partition_ok(t, self.window_size)
    /\ t.shape[2] = self.dim
    /\ mhsa_ok(self.window_attention, block_enter(self, ShapeOnly(t.shape)))

\* forward
block_forward(self, t) ==
    block_leave(self, block_mlp(self, block_attend(self, block_enter(self, t))),
                t.shape[3], t.shape[4])

----------------------------------------------------------------------------
(* Reshaping: the utilities applied to a feature map, in the orders        *)
(* AttentionBlock.forward applies them.                                    *)

\* a (B, C, H, W) feature map; seed 0 labels every element with its own
\* position, other seeds repeat values
FeatureMap(shape, seed) ==
    [shape |-> shape,
     data |-> [k \in 1..Numel(shape) |-> IF seed = 0 THEN k ELSE k % (seed + 2)]]

NoTensor == [shape |-> <<>>, data |-> <<>>]

\* the utilities are functions of no module
NoModule == [window_size |-> 0]

ReshapeInit ==
    /\ cfg \in [B : 1..MaxB, C : 1..MaxC, H : 1..MaxHW, W : 1..MaxHW,
                window_size : 1..MaxWin, seed : 0..MaxSeed]
    /\ model = NoModule
    /\ pc = "start"
    /\ x_in = FeatureMap(<<cfg.B, cfg.C, cfg.H, cfg.W>>, cfg.seed)
    /\ x = x_in
    /\ saved = NoTensor
    /\ i = 0
    /\ residual = <<>>
    /\ trace = <<>>

Partition ==
    /\ pc = "start"
    /\ window_partition_ok(x, cfg.window_size)
    /\ x' = window_partition(x, cfg.window_size)
    /\ pc' = "partitioned"
    /\ UNCHANGED <<cfg, model, x_in, saved, i, residual, trace>>

PartitionRaises ==
    /\ pc = "start"
    /\ ~window_partition_ok(x, cfg.window_size)
    /\ pc' = "error"
    /\ UNCHANGED <<cfg, model, x, x_in, saved, i, residual, trace>>

Flatten ==
    /\ pc \in {"start", "partitioned"}
    /\ saved' = x
    /\ x' = spatial_flatten(x)
    /\ pc' = "flattened"
    /\ UNCHANGED <<cfg, model, x_in, i, residual, trace>>

Unflatten ==
    /\ pc = "flattened"
    /\ x' = spatial_unflatten(x, saved.shape[Rank(saved) - 1], saved.shape[Rank(saved)])
    /\ pc' = "unflattened"
    /\ UNCHANGED <<cfg, model, x_in, saved, i, residual, trace>>

Unpartition ==
    /\ \/ pc = "partitioned"
       \/ pc = "unflattened" /\ Rank(x) = 5
    /\ x' = window_unpartition(x, cfg.H, cfg.W)
    /\ pc' = "unpartitioned"
    /\ UNCHANGED <<cfg, model, x_in, saved, i, residual, trace>>

ReshapeNext == Partition \/ PartitionRaises \/ Flatten \/ Unflatten \/ Unpartition

SpecReshape == ReshapeInit /\ [][ReshapeNext]_vars

----------------------------------------------------------------------------
\* C4: window_unpartition(window_partition(x, w), H, W) is x, element for
\* element, for every (B, C, H, W) map with H and W divisible by w,
\* square or not.
C4_UnpartitionInvertsPartition ==
    pc = "unpartitioned" => x = x_in

C4_Witness ==
    /\ pc = "unpartitioned"
    /\ saved = NoTensor
    /\ cfg.H # cfg.W
    /\ cfg.window_size > 1
    /\ cfg.H > cfg.window_size
    /\ cfg.seed = 0

\* C5: window_partition returns (B, (H/w)*(W/w), C, w, w) with
\* out[b, n, c, i, j] = x[b, c, (n div (W/w))*w + i, (n mod (W/w))*w + j],
\* and every input element appears in exactly one window position.
C5_PartitionRowMajorTiles ==
    pc = "partitioned" =>
        LET w == cfg.window_size
            nW == cfg.W \div w
        IN /\ x.shape = <<cfg.B, (cfg.H \div w) * nW, cfg.C, w, w>>
           /\ \A b \in 0..(cfg.B - 1), n \in 0..((cfg.H \div w) * nW - 1),
                 c \in 0..(cfg.C - 1), a \in 0..(w - 1), j \in 0..(w - 1) :
                 At(x, <<b, n, c, a, j>>) =
                     At(x_in, <<b, c, (n \div nW) * w + a, (n % nW) * w + j>>)
           /\ cfg.seed = 0 =>
                 \A e \in 1..Len(x_in.data) :
                     Cardinality({g \in 1..Len(x.data) : x.data[g] = x_in.data[e]}) = 1

C5_Witness ==
    /\ pc = "partitioned"
    /\ cfg.window_size > 1
    /\ cfg.W > cfg.window_size
    /\ cfg.H > cfg.window_size
    /\ cfg.C > 1
    /\ cfg.seed = 0

\* C6: spatial_unflatten(spatial_flatten(x), H, W) is x for every
\* (..., C, H, W) tensor, and spatial_flatten keeps raster-scan order:
\* spatial_flatten(x)[..., h*W + w, c] = x[..., c, h, w].
C6_FlattenRoundTripRaster ==
    /\ pc = "unflattened" => x = saved
    /\ pc = "flattened" =>
          LET r == Rank(saved)
              C == saved.shape[r - 2]
              H == saved.shape[r - 1]
              W == saved.shape[r]
              lead == SubSeq(saved.shape, 1, r - 3)
          IN /\ x.shape = lead \o <<H * W, C>>
             /\ \A f \in 0..(Numel(lead) - 1), c \in 0..(C - 1),
                   h \in 0..(H - 1), w \in 0..(W - 1) :
                   At(x, Unravel(f, lead) \o <<h * W + w, c>>) =
                       At(saved, Unravel(f, lead) \o <<c, h, w>>)

C6_Witness ==
    /\ pc = "unflattened"
    /\ Rank(saved) = 5
    /\ saved.shape[3] > 1
    /\ saved.shape[4] > 1
    /\ saved.shape[2] > 1
    /\ cfg.seed = 0

----------------------------------------------------------------------------
(* MultiHeadSelfAttention.forward, statement by statement, on an integer   *)
(* valued (B, N, L, dim) input.                                            *)

\* a tensor of integers in -1..1, each element labelled by its position
InputTensor(shape, seed) ==
    [shape |-> shape,
     data |-> [g \in 1..Numel(shape) |-> Leaf(g, ((g * (seed + 1) + seed) % 3) - 1)]]

AttnInit ==
    /\ cfg \in [B : 1..MaxB, N : 1..MaxN, L : 1..MaxL, dim : 1..MaxDim,
                num_heads : 1..MaxHeads, transposed : BOOLEAN, seed : 0..MaxSeed]
    /\ model =
          MultiHeadSelfAttention(cfg.dim, cfg.transposed, cfg.num_heads, cfg.seed)
    /\ pc = "start"
    /\ x_in = InputTensor(<<cfg.B, cfg.N, cfg.L, cfg.dim>>, cfg.seed)
    /\ x = x_in
    /\ saved = NoTensor
    /\ i = 0
    /\ residual = <<>>
    /\ trace = <<>>

Project ==
    /\ pc = "start"
    /\ x' = mhsa_project(model, x)
    /\ pc' = "projected"
    /\ UNCHANGED <<cfg, model, x_in, saved, i, residual, trace>>

SplitHeads ==
    /\ pc = "projected"
    /\ mhsa_ok(model, x_in)
    /\ x' = mhsa_split(model, x)
    /\ pc' = "split"
    /\ UNCHANGED <<cfg, model, x_in, saved, i, residual, trace>>

SplitHeadsRaises ==
    /\ pc = "projected"
    /\ ~mhsa_ok(model, x_in)
    /\ pc' = "error"
    /\ UNCHANGED <<cfg, model, x, x_in, saved, i, residual, trace>>

Scores ==
    /\ pc = "split"
    /\ saved' = x
    /\ x' = mhsa_scores(model, x)
    /\ pc' = "scores"
    /\ UNCHANGED <<cfg, model, x_in, i, residual, trace>>

Weights ==
    /\ pc = "scores"
    /\ x' = mhsa_weights(model, x)
    /\ pc' = "weights"
    /\ UNCHANGED <<cfg, model, x_in, saved, i, residual, trace>>

Context ==
    /\ pc = "weights"
    /\ x' = mhsa_context(model, x, saved)
    /\ pc' = "context"
    /\ UNCHANGED <<cfg, model, x_in, saved, i, residual, trace>>

Out ==
    /\ pc = "context"
    /\ x' = mhsa_out(model, x)
    /\ pc' = "done"
    /\ UNCHANGED <<cfg, model, x_in, saved, i, residual, trace>>

AttnNext ==
    Project \/ SplitHeads \/ SplitHeadsRaises \/ Scores \/ Weights \/ Context \/ Out

SpecAttn == AttnInit /\ [][AttnNext]_vars

\* the statements above compose to forward
AttnStepsAreForward ==
    pc = "done" => x = mhsa_forward(model, x_in)

\* with saved the (3, B, N, num_heads, L, head_dim) tensor of line 66: the dot
\* product of the query at position l and the key at position l2 of one head
QK(b, n, h, l, l2) ==
    RatSum([d \in 1..saved.shape[6] |->
               RatMul(At(saved, <<0, b, n, h, l, d - 1>>).val,
                      At(saved, <<1, b, n, h, l2, d - 1>>).val)])

HeadIndices ==
    {idx \in (0..(cfg.B - 1)) \X (0..(cfg.N - 1)) \X (0..(cfg.num_heads - 1))
             \X (0..(cfg.L - 1)) \X (0..(cfg.L - 1)) : TRUE}

----------------------------------------------------------------------------
(* AttentionBlock.forward, statement by statement, on a (B, C, H, W) map.  *)

BlockInit ==
    /\ cfg \in [B : 1..MaxB, C : 1..MaxBlockDim, H : 1..MaxHW, W : 1..MaxHW,
                window_size : 1..MaxWin, num_heads : 1..MaxHeads,
                transposed : BOOLEAN]
    /\ model =
          AttentionBlock(cfg.C, cfg.transposed, cfg.window_size, cfg.num_heads, 0)
    /\ pc = "start"
    /\ x_in = InputTensor(<<cfg.B, cfg.C, cfg.H, cfg.W>>, 0)
    /\ x = x_in
    /\ saved = NoTensor
    /\ i = 0
    /\ residual = <<>>
    /\ trace = <<>>

BlockEnter ==
    /\ pc = "start"
    /\ block_ok(model, x)
    /\ x' = block_enter(model, x)
    /\ pc' = "windows"
    /\ UNCHANGED <<cfg, model, x_in, saved, i, residual, trace>>

BlockRaises ==
    /\ pc = "start"
    /\ ~block_ok(model, x)
    /\ pc' = "error"
    /\ UNCHANGED <<cfg, model, x, x_in, saved, i, residual, trace>>

BlockAttend ==
    /\ pc = "windows"
    /\ x' = block_attend(model, x)
    /\ pc' = "attended"
    /\ UNCHANGED <<cfg, model, x_in, saved, i, residual, trace>>

BlockMlp ==
    /\ pc = "attended"
    /\ x' = block_mlp(model, x)
    /\ pc' = "fed"
    /\ UNCHANGED <<cfg, model, x_in, saved, i, residual, trace>>

BlockLeave ==
    /\ pc = "fed"
    /\ x' = block_leave(model, x, cfg.H, cfg.W)
    /\ pc' = "done"
    /\ UNCHANGED <<cfg, model, x_in, saved, i, residual, trace>>

BlockNext == BlockEnter \/ BlockRaises \/ BlockAttend \/ BlockMlp \/ BlockLeave

SpecBlock == BlockInit /\ [][BlockNext]_vars

\* the statements above compose to forward, on elements and on shapes alone
BlockStepsAreForward ==
    pc = "done" =>
        /\ x = block_forward(model, x_in)
        /\ x.shape = block_forward(model, ShapeOnly(x_in.shape)).shape

\* the input elements of the window of (b, h, w), all channels
WindowOf(b, h, w) ==
    LET ws == cfg.window_size
    IN {At(x_in, <<b, c, h2, w2>>).id : c \in 0..(cfg.C - 1),
            h2 \in {k \in 0..(cfg.H - 1) : k \div ws = h \div ws},
            w2 \in {k \in 0..(cfg.W - 1) : k \div ws = w \div ws}}

MapIndices ==
    (0..(cfg.B - 1)) \X (0..(cfg.C - 1)) \X (0..(cfg.H - 1)) \X (0..(cfg.W - 1))

----------------------------------------------------------------------------
(* Shapes of the library layers the networks use. *)

\* nn.Conv2d(in_channels, out_channels, kernel_size, stride, padding)
nn_Conv2d(in_ch, out_ch, kernel_size, stride, padding) ==
    [in_channels |-> in_ch, out_channels |-> out_ch, kernel_size |-> kernel_size,
     stride |-> stride, padding |-> padding]

conv2d_size(conv, n) ==
    ((n + 2 * conv.padding - conv.kernel_size) \div conv.stride) + 1

\* Conv2d.forward raises on a channel mismatch or a map smaller than the kernel
conv2d_ok(conv, shape) ==
    /\ shape[2] = conv.in_channels
    /\ shape[3] + 2 * conv.padding >= conv.kernel_size
    /\ shape[4] + 2 * conv.padding >= conv.kernel_size

conv2d_shape(conv, shape) ==
    <<shape[1], conv.out_channels, conv2d_size(conv, shape[3]), conv2d_size(conv, shape[4])>>

\* nn.PixelShuffle(factor): (B, C * factor^2, H, W) to (B, C, H * factor, W * factor)
pixel_shuffle_shape_flat(factor, shape) ==
    <<shape[1], shape[2] \div factor, shape[3] * factor, shape[4] * factor>>

pixel_shuffle_shape(factor, shape) ==
    <<shape[1], shape[2] \div (factor * factor), shape[3] * factor, shape[4] * factor>>

----------------------------------------------------------------------------
(* TransformerSR.  In forward, x and the stored residuals are records       *)
(* [shape, val]: val is the bag of terms the tensor is the sum of, a term   *)
(* being the output of in_conv, of one block pair, or of out_conv.  The    *)
(* integer 0 the dict starts with is the empty sum of shape ().            *)

in_channels == 3
out_channels == 3

\* __init__
TransformerSR(factor, residual_groups, num_blocks, dim, window_size, num_heads) ==
    [factor |-> factor,
     residual_groups |-> residual_groups,
     in_conv |-> nn_Conv2d(in_channels, dim, 3, 1, 1),
     blocks |-> [k \in 1..num_blocks |->
                    <<AttentionBlock(dim, FALSE, window_size, num_heads, 0),
                      AttentionBlock(dim, TRUE, window_size, num_heads, 0)>>],
     out_conv |-> nn_Conv2d(dim, factor * factor * out_channels, 3, 1, 1)]

Zero == [shape |-> <<>>, val |-> EmptyBag]

Term(name, k) == SetToBag({<<name, k>>})

\* a + b, a scalar broadcasting to the other operand's shape
SymAdd(a, b) ==
    [shape |-> IF a.shape = <<>> THEN b.shape ELSE a.shape,
     val |-> a.val (+) b.val]

\* the keys of {k: 0 for k in residual_groups}, in insertion order
RECURSIVE Keys(_)
Keys(groups) ==
    IF groups = <<>> THEN <<>>
    ELSE LET rest == Keys(SubSeq(groups, 1, Len(groups) - 1))
             last == groups[Len(groups)]
         IN IF \E k \in 1..Len(rest) : rest[k] = last THEN rest ELSE Append(rest, last)

Captures_always(k, step) == TRUE

\* line 198
Captures(k, step) == k % step = 0

Closes_at_start(k, step) == k % step = 0

\* line 204
Closes(k, step) == k % step = step - 1

\* lines 203-205 leaving the loop after the first period that closes
RECURSIVE close_first_only(_, _, _, _)
close_first_only(keys, k, res, t) ==
    IF keys = <<>> THEN [x |-> t, added |-> <<>>]
    ELSE IF Closes(k, Head(keys))
         THEN [x |-> SymAdd(t, res[Head(keys)]),
               added |-> <<[step |-> Head(keys), value |-> res[Head(keys)]]>>]
         ELSE close_first_only(Tail(keys), k, res, t)

\* lines 203-205: the value of x after the loop over residual.keys(), and the
\* additions the loop made, in order
RECURSIVE close_residuals(_, _, _, _)
close_residuals(keys, k, res, t) ==
    IF keys = <<>> THEN [x |-> t, added |-> <<>>]
    ELSE IF Closes(k, Head(keys))
         THEN LET rest == close_residuals(Tail(keys), k, res, SymAdd(t, res[Head(keys)]))
              IN [x |-> rest.x,
                  added |-> <<[step |-> Head(keys), value |-> res[Head(keys)]]>>
                            \o rest.added]
         ELSE close_residuals(Tail(keys), k, res, t)

\* lines 197-199: the dict after the loop over residual.keys()
capture_residuals(k, res, t) ==
    [step \in DOMAIN res |-> IF Captures(k, step) THEN t ELSE res[step]]

\* a Sequential(AttentionBlock, AttentionBlock) on a shape
pair_ok(pair, shape) ==
    /\ block_ok(pair[1], ShapeOnly(shape))
    /\ block_ok(pair[2], block_forward(pair[1], ShapeOnly(shape)))

pair_shape(pair, shape) ==
    block_forward(pair[2], block_forward(pair[1], ShapeOnly(shape))).shape

SRKeys == Keys(model.residual_groups)

\* the lists of at most n periods in 1..p
Groups(n, p) == UNION {[1..k -> 1..p] : k \in 0..n}

SRStart ==
    /\ model = TransformerSR(cfg.factor, cfg.residual_groups, cfg.num_blocks,
                             cfg.dim, cfg.window_size, cfg.num_heads)
    /\ pc = "start"
    /\ x_in = [shape |-> <<cfg.B, in_channels, cfg.H, cfg.W>>, val |-> Term("input", 0)]
    /\ x = x_in
    /\ saved = NoTensor
    /\ i = 0
    /\ residual = <<>>
    /\ trace = <<>>

\* residual policies of every kind on a few map sizes
SRInit ==
    /\ cfg \in [factor : {2}, residual_groups : Groups(MaxGroups, MaxPeriod),
                num_blocks : 0..MaxBlocks, dim : {1}, window_size : 1..MaxWin,
                num_heads : {1}, B : {1}, H : 1..MaxWin, W : {MaxWin}]
    /\ SRStart

\* map sizes and layer sizes of every kind under a few residual policies
SRShapeInit ==
    /\ cfg \in [factor : 1..MaxFactor, residual_groups : {<<>>, <<1>>, <<2>>, <<2, 1>>},
                num_blocks : 0..2, dim : 1..MaxBlockDim, window_size : 1..MaxWin,
                num_heads : 1..MaxHeads, B : {1}, H : 1..MaxHW, W : 1..MaxHW]
    /\ SRStart

\* lines 191-194
SRBegin ==
    /\ pc = "start"
    /\ conv2d_ok(model.in_conv, x.shape)
    /\ residual' = [step \in {SRKeys[k] : k \in 1..Len(SRKeys)} |-> Zero]
    /\ x' = [shape |-> conv2d_shape(model.in_conv, x.shape), val |-> Term("in_conv", 0)]
    /\ i' = 0
    /\ pc' = IF Len(model.blocks) = 0 THEN "out" ELSE "capture"
    /\ UNCHANGED <<cfg, model, x_in, saved, trace>>

\* lines 197-199
SRCapture ==
    /\ pc = "capture"
    /\ residual' = capture_residuals(i, residual, x)
    /\ trace' = Append(trace, [entry |-> x, out |-> Zero, added |-> <<>>, after |-> Zero])
    /\ pc' = "block"
    /\ UNCHANGED <<cfg, model, x, x_in, saved, i>>

\* line 201
SRBlock ==
    /\ pc = "block"
    /\ pair_ok(model.blocks[i + 1], x.shape)
    /\ x' = [shape |-> pair_shape(model.blocks[i + 1], x.shape), val |-> Term("block", i)]
    /\ trace' = [trace EXCEPT ![i + 1].out = x']
    /\ pc' = "close"
    /\ UNCHANGED <<cfg, model, x_in, saved, i, residual>>

\* line 201 when a reshape inside the pair raises
SRBlockRaises ==
    /\ pc = "block"
    /\ ~pair_ok(model.blocks[i + 1], x.shape)
    /\ pc' = "error"
    /\ UNCHANGED <<cfg, model, x, x_in, saved, i, residual, trace>>

\* lines 203-205 and the step of the enumerate loop
SRClose ==
    /\ pc = "close"
    /\ LET closed == close_residuals(SRKeys, i, residual, x)
       IN /\ x' = closed.x
          /\ trace' = [trace EXCEPT ![i + 1].after = closed.x,
                                    ![i + 1].added = closed.added]
    /\ i' = i + 1
    /\ pc' = IF i + 1 = Len(model.blocks) THEN "out" ELSE "capture"
    /\ UNCHANGED <<cfg, model, x_in, saved, residual>>

\* lines 207-208
SRFinish ==
    /\ pc = "out"
    /\ conv2d_ok(model.out_conv, x.shape)
    /\ x' = [shape |-> pixel_shuffle_shape(model.factor,
                                           conv2d_shape(model.out_conv, x.shape)),
             val |-> Term("out_conv", 0)]
    /\ pc' = "done"
    /\ UNCHANGED <<cfg, model, x_in, saved, i, residual, trace>>

SRNext == SRBegin \/ SRCapture \/ SRBlock \/ SRBlockRaises \/ SRClose \/ SRFinish

SpecSR == SRInit /\ [][SRNext]_vars

SpecSRShape == SRShapeInit /\ [][SRNext]_vars

----------------------------------------------------------------------------
(* Claims about TransformerSR.forward.  trace[k + 1] is what iteration k   *)
(* did; iterations 0..i-1 are complete.                                    *)

\* the configured periods that close at iteration k
ClosingAt(k) == {p \in DOMAIN residual : k % p = p - 1}

\* the sum of the values x had on entry to iteration k - (p - 1), over p in S
RECURSIVE EntriesSum(_, _)
EntriesSum(S, k) ==
    IF S = {} THEN EmptyBag
    ELSE LET p == CHOOSE q \in S : TRUE
         IN trace[k - (p - 1) + 1].entry.val (+) EntriesSum(S \ {p}, k)

\* the sum of the stored tensors of the periods in S
RECURSIVE StoredSum(_)
StoredSum(S) ==
    IF S = {} THEN EmptyBag
    ELSE LET p == CHOOSE q \in S : TRUE
         IN residual[p].val (+) StoredSum(S \ {p})

\* C1 as stated: for every configured period p and every i with
\* i % p = p - 1, x after iteration i is block_i's output plus the value x
\* had on entry to block pair i - (p - 1), and the placeholder 0 is never
\* the value added.
C1_AfterIsOutputPlusOneEntry ==
    \A k \in 0..(i - 1) : \A p \in ClosingAt(k) :
        /\ trace[k + 1].after = SymAdd(trace[k + 1].out, trace[k - (p - 1) + 1].entry)
        /\ \A j \in 1..Len(trace[k + 1].added) : trace[k + 1].added[j].value # Zero

\* C1 amended: for every configured period p and every i with
\* i % p = p - 1, x after iteration i is block_i's output plus, for every
\* configured period q that closes at i (p among them), the value x had on
\* entry to block pair i - (q - 1); where p is the only period closing at i
\* that is block_i's output plus the value x had on entry to block pair
\* i - (p - 1).  The value added for p is the one captured at i - (p - 1),
\* never the placeholder 0, and iterations where no period closes leave
\* block_i's output unchanged.
C1_AfterIsOutputPlusClosingEntries ==
    \A k \in 0..(i - 1) :
        /\ trace[k + 1].after.shape = trace[k + 1].out.shape
        /\ trace[k + 1].after.val =
               trace[k + 1].out.val (+) EntriesSum(ClosingAt(k), k)
        /\ \A p \in ClosingAt(k) :
              /\ ClosingAt(k) = {p} =>
                    trace[k + 1].after =
                        SymAdd(trace[k + 1].out, trace[k - (p - 1) + 1].entry)
              /\ \E j \in 1..Len(trace[k + 1].added) :
                    trace[k + 1].added[j] =
                        [step |-> p, value |-> trace[k - (p - 1) + 1].entry]
        /\ \A j \in 1..Len(trace[k + 1].added) : trace[k + 1].added[j].value # Zero

C1_Witness ==
    /\ pc = "done"
    /\ cfg.residual_groups = <<2>>
    /\ cfg.num_blocks = 4
    /\ trace[2].after = SymAdd(trace[2].out, trace[1].entry)
    /\ trace[4].after = SymAdd(trace[4].out, trace[3].entry)
    /\ trace[3].entry = trace[2].after

\* C2: each configured period p has its own stored tensor, overwritten only
\* at iterations with i % p = 0 (by the capture loop, with the block input)
\* and unchanged by the capture or closing of any other period; at an
\* iteration where several periods close, every one of their stored tensors
\* is added to x in that iteration.
C2_PeriodsIndependent ==
    [][/\ pc = "capture" =>
             \A p \in DOMAIN residual :
                 residual'[p] = IF i % p = 0 THEN x ELSE residual[p]
       /\ pc \notin {"start", "capture"} => residual' = residual
       /\ pc = "close" =>
             /\ x'.val = x.val (+) StoredSum(ClosingAt(i))
             /\ x'.shape = x.shape]_vars

C2_Witness ==
    /\ pc = "out"
    /\ i = 6
    /\ Len(trace[6].added) = 2
    /\ trace[6].added[1].value # trace[6].added[2].value
    /\ Len(trace[2].added) = 1
    /\ {trace[6].added[j].step : j \in 1..2} = {2, 6}
    /\ residual[2] # residual[6]

\* C3: for every period p in residual_groups that evenly divides
\* num_blocks, when the block loop has finished every residual captured for
\* p (at each i with i % p = 0) has been added back to x exactly once, at
\* index i + p - 1, so no skip connection is left open.
C3_EveryCaptureClosedOnce ==
    pc \in {"out", "done"} =>
        \A p \in DOMAIN residual :
            cfg.num_blocks % p = 0 =>
                \A c \in {k \in 0..(cfg.num_blocks - 1) : k % p = 0} :
                    LET adds == UNION {{k} \X (1..Len(trace[k].added)) :
                                           k \in 1..Len(trace)}
                        hits == {a \in adds :
                                    trace[a[1]].added[a[2]] =
                                        [step |-> p, value |-> trace[c + 1].entry]}
                    IN /\ Cardinality(hits) = 1
                       /\ \A a \in hits : a[1] - 1 = c + p - 1

C3_Witness ==
    /\ pc = "done"
    /\ cfg.num_blocks = 6
    /\ cfg.residual_groups = <<3, 2>>
    /\ \A k \in 1..6 : Len(trace[k].added) = (IF k \in {2, 3, 4} THEN 1
                                              ELSE IF k = 6 THEN 2 ELSE 0)

----------------------------------------------------------------------------
(* Classifier.  forward keeps shapes only: x is ShapeOnly(shape).          *)

classifier_in_channels == 3

RECURSIVE Pow2(_)
Pow2(n) == IF n = 0 THEN 1 ELSE 2 * Pow2(n - 1)

\* lines 243-247: the block pairs of stage s (0-based) with the halving left out
RECURSIVE stage_blocks_unhalved(_, _, _, _, _)
stage_blocks_unhalved(n, dim, window_size, num_heads, s) ==
    IF n = 0 THEN <<>>
    ELSE <<[kind |-> "AttentionBlock",
            layer |-> AttentionBlock(dim, FALSE, window_size, num_heads, 0)],
           [kind |-> "AttentionBlock",
            layer |-> AttentionBlock(dim, TRUE, window_size, num_heads, 0)]>>
         \o stage_blocks_unhalved(n - 1, dim, window_size, num_heads, s)

\* lines 243-247: the block pairs of stage s (0-based)
RECURSIVE stage_blocks(_, _, _, _, _)
stage_blocks(n, dim, window_size, num_heads, s) ==
    IF n = 0 THEN <<>>
    ELSE <<[kind |-> "AttentionBlock",
            layer |-> AttentionBlock(dim, FALSE, window_size \div Pow2(s), num_heads, 0)],
           [kind |-> "AttentionBlock",
            layer |-> AttentionBlock(dim, TRUE, window_size \div Pow2(s), num_heads, 0)]>>
         \o stage_blocks(n - 1, dim, window_size, num_heads, s)

\* lines 240-247: the layers of stages s.. (0-based)
RECURSIVE stages_from(_, _, _, _, _)
stages_from(s, groups, dims, window_size, num_heads) ==
    IF s >= Len(groups) THEN <<>>
    ELSE (IF s > 0
          THEN <<[kind |-> "Conv2d", layer |-> nn_Conv2d(dims[s], dims[s + 1], 2, 2, 0)]>>
          ELSE <<>>)
         \o stage_blocks(groups[s + 1], dims[s + 1], window_size, num_heads, s)
         \o stages_from(s + 1, groups, dims, window_size, num_heads)

\* __init__
Classifier(groups, dims, window_size, num_heads, num_classes) ==
    [blocks |->
        <<[kind |-> "Conv2d", layer |-> nn_Conv2d(classifier_in_channels, dims[1], 3, 1, 1)]>>
        \o stages_from(0, groups, dims, window_size, num_heads)
        \o <<[kind |-> "AdaptiveAvgPool2d", layer |-> 1],
             [kind |-> "Flatten", layer |-> 1],
             [kind |-> "Linear", layer |-> nn_Linear(dims[Len(dims)], num_classes, 0)]>>]

\* whether the layer accepts the shape (otherwise its forward raises)
layer_ok(b, shape) ==
    CASE b.kind = "Conv2d" -> conv2d_ok(b.layer, shape)
      [] b.kind = "AttentionBlock" -> block_ok(b.layer, ShapeOnly(shape))
      [] b.kind = "Linear" -> shape[Len(shape)] = b.layer.in_features
      [] OTHER -> TRUE

\* the shape of block(x)
layer_shape(b, shape) ==
    CASE b.kind = "Conv2d" -> conv2d_shape(b.layer, shape)
      [] b.kind = "AttentionBlock" -> block_forward(b.layer, ShapeOnly(shape)).shape
      [] b.kind = "AdaptiveAvgPool2d" -> <<shape[1], shape[2], b.layer, b.layer>>
      [] b.kind = "Flatten" -> <<shape[1], Prod(Tail(shape))>>
      [] b.kind = "Linear" -> Linear(b.layer, ShapeOnly(shape)).shape

\* channel counts for n stages: doubling from 1 or from 2, or halving down to 2
DimsOf(n) ==
    {[s \in 1..n |-> d * Pow2(s - 1)] : d \in {1, 2}} \cup {[s \in 1..n |-> 2 * Pow2(n - s)]}

Batches == {1, 2}
Classes == {1, 3}

ClsInit ==
    /\ cfg \in [groups : UNION {[1..n -> 0..MaxGroupSize] : n \in 1..MaxStages},
                dims : UNION {DimsOf(n) : n \in 1..MaxStages}, window_size : 1..MaxClsWin, num_heads : 1..MaxHeads,
                num_classes : Classes, B : Batches, H : 1..MaxClsHW, W : 1..MaxClsHW]
    /\ Len(cfg.dims) = Len(cfg.groups)
    /\ cfg.W \in {cfg.H, MaxClsWin}
    /\ model =
          Classifier(cfg.groups, cfg.dims, cfg.window_size, cfg.num_heads, cfg.num_classes)
    /\ pc = "start"
    /\ x_in = ShapeOnly(<<cfg.B, classifier_in_channels, cfg.H, cfg.W>>)
    /\ x = x_in
    /\ saved = NoTensor
    /\ i = 0
    /\ residual = <<>>
    /\ trace = <<>>

\* line 256 and the start of the loop
ClsBegin ==
    /\ pc = "start"
    /\ i' = 1
    /\ pc' = "loop"
    /\ UNCHANGED <<cfg, model, x, x_in, saved, residual, trace>>

\* x = block(x) for the block at position i of self.blocks
ClsApply(kind) ==
    /\ pc = "loop"
    /\ i <= Len(model.blocks)
    /\ model.blocks[i].kind = kind
    /\ layer_ok(model.blocks[i], x.shape)
    /\ x' = ShapeOnly(layer_shape(model.blocks[i], x.shape))
    /\ trace' = Append(trace, [block |-> model.blocks[i], input |-> x.shape])
    /\ i' = i + 1
    /\ UNCHANGED <<cfg, model, pc, x_in, saved, residual>>

ClsConv == ClsApply("Conv2d")

ClsAttention == ClsApply("AttentionBlock")

ClsPool == ClsApply("AdaptiveAvgPool2d")

ClsFlatten == ClsApply("Flatten")

ClsLinear == ClsApply("Linear")

ClsRaises ==
    /\ pc = "loop"
    /\ i <= Len(model.blocks)
    /\ ~layer_ok(model.blocks[i], x.shape)
    /\ pc' = "error"
    /\ UNCHANGED <<cfg, model, x, x_in, saved, i, residual, trace>>

\* line 259
ClsReturn ==
    /\ pc = "loop"
    /\ i > Len(model.blocks)
    /\ pc' = "done"
    /\ UNCHANGED <<cfg, model, x, x_in, saved, i, residual, trace>>

ClsNext ==
    ClsBegin \/ ClsConv \/ ClsAttention \/ ClsPool \/ ClsFlatten \/ ClsLinear
        \/ ClsRaises \/ ClsReturn

SpecCls == ClsInit /\ [][ClsNext]_vars

\* the stage (0-based) the k-th applied layer belongs to: the number of
\* stride-2 convolutions applied up to and including it
StageOf(k) ==
    Cardinality({j \in 1..k : /\ trace[j].block.kind = "Conv2d"
                              /\ trace[j].block.layer.stride = 2})

\* the positions in trace of the attention blocks of stage s
BlocksOfStage(s) ==
    {k \in 1..Len(trace) : trace[k].block.kind = "AttentionBlock" /\ StageOf(k) = s}

\* C8: on a (B, in_channels, H, W) input with H and W divisible by
\* window_size and window_size divisible by 2^(len(groups)-1) (and layers
\* whose channel count is divisible by the head count) forward raises
\* nowhere and returns shape (B, num_classes); stage i runs on a
\* (B, dims[i], H/2^i, W/2^i) map with window size window_size/2^i dividing
\* both spatial sizes, a stride-2 kernel-2 convolution precedes every stage
\* but the first, and stage i holds groups[i] pairs of a windowed block
\* followed by a transposed block.
C8_ClassifierShape ==
    LET n == Len(cfg.groups)
        dims == cfg.dims
        pre == /\ cfg.H % cfg.window_size = 0
               /\ cfg.W % cfg.window_size = 0
               /\ cfg.window_size % Pow2(n - 1) = 0
               /\ \A s \in 1..n : dims[s] % cfg.num_heads = 0
    IN pre =>
        /\ pc # "error"
        /\ pc = "done" =>
              /\ x.shape = <<cfg.B, cfg.num_classes>>
              /\ trace[1].block.kind = "Conv2d"
              /\ trace[1].block.layer.kernel_size = 3
              /\ \A s \in 0..(n - 1) :
                    /\ Cardinality(BlocksOfStage(s)) = 2 * cfg.groups[s + 1]
                    /\ \A k \in BlocksOfStage(s) :
                          LET ws == trace[k].block.layer.window_size
                          IN /\ trace[k].input =
                                    <<cfg.B, dims[s + 1], cfg.H \div Pow2(s), cfg.W \div Pow2(s)>>
                             /\ cfg.H % Pow2(s) = 0
                             /\ cfg.W % Pow2(s) = 0
                             /\ ws * Pow2(s) = cfg.window_size
                             /\ trace[k].input[3] % ws = 0
                             /\ trace[k].input[4] % ws = 0
                             /\ trace[k].block.layer.transposed
                                    = (Cardinality({j \in BlocksOfStage(s) : j < k}) % 2 = 1)
                             /\ ~trace[k].block.layer.transposed =>
                                    /\ k + 1 \in BlocksOfStage(s)
                                    /\ trace[k + 1].block.layer.transposed
              /\ \A k \in 2..Len(trace) :
                    trace[k].block.kind = "Conv2d" =>
                        /\ trace[k].block.layer.kernel_size = 2
                        /\ trace[k].block.layer.stride = 2
              /\ StageOf(Len(trace)) = n - 1
              /\ \A s \in 1..(n - 1) :
                    \E k \in 2..Len(trace) :
                        /\ trace[k].block.kind = "Conv2d"
                        /\ StageOf(k) = s
                        /\ \A j \in BlocksOfStage(s) : j > k
                        /\ \A j \in BlocksOfStage(s - 1) : j < k

C8_Witness ==
    /\ pc = "done"
    /\ cfg.groups = <<1, 1>>
    /\ cfg.B = 1
    /\ cfg.H = 8
    /\ cfg.W = 4
    /\ cfg.window_size = 4
    /\ cfg.num_heads = 2
    /\ cfg.num_classes = 3
    /\ x.shape = <<1, 3>>
    /\ Len(trace) = 9

====
